---- MODULE Spec2Model ----
(***************************************************************************)
(* Rates dashboard (Frontend/frontend/src/App.jsx): the App component's    *)
(* state, the interactive yield chart's drag handlers and the duration /   *)
(* DV01 / PNL estimator.                                                   *)
(*                                                                         *)
(* Numbers.  A JavaScript number is modelled as an exact decimal-scaled    *)
(* rational n/d * 10^e (kind "fin"), or one of the IEEE-754 special values *)
(* the code can produce by dividing by zero (kind "inf" with sign n, kind  *)
(* "nan").  The finite form is canonical: n and d coprime and neither a    *)
(* multiple of 5, zero is 0/1*10^0.  Rounding of the binary representation *)
(* and the sign of zero are not modelled.                                  *)
(***************************************************************************)
EXTENDS Integers, Sequences, FiniteSets, TLC

\* ------------------------------------------------------------------------
\* JavaScript numbers
\* ------------------------------------------------------------------------

Abs(x) == IF x < 0 THEN -x ELSE x

Sign(x) == IF x < 0 THEN -1 ELSE IF x > 0 THEN 1 ELSE 0

RECURSIVE GCD(_, _)
GCD(a, b) == IF b = 0 THEN a ELSE GCD(b, a % b)

RECURSIVE Pow10(_)
Pow10(k) == IF k <= 0 THEN 1 ELSE 10 * Pow10(k - 1)

Fin(n, d, e) == [k |-> "fin", n |-> n, d |-> d, e |-> e]

Infinity(s) == [k |-> "inf", n |-> s, d |-> 1, e |-> 0]

NaN == [k |-> "nan", n |-> 0, d |-> 1, e |-> 0]

\* undefined (a missing property) and null, as values a number may stand for
Undefined == [k |-> "undefined", n |-> 0, d |-> 1, e |-> 0]

Null == [k |-> "null", n |-> 0, d |-> 1, e |-> 0]

\* the canonical form of n/d * 10^e, d > 0 and n, d coprime: every factor 5
\* goes to the exponent (5 = 10/2)
RECURSIVE Strip(_, _, _)
Strip(n, d, e) ==
  IF n % 5 = 0
  THEN (IF (n \div 5) % 2 = 0 THEN Strip(n \div 10, d, e + 1)
        ELSE Strip(n \div 5, 2 * d, e + 1))
  ELSE IF d % 5 = 0
  THEN (IF (d \div 5) % 2 = 0 THEN Strip(n, d \div 10, e - 1)
        ELSE Strip(2 * n, d \div 5, e - 1))
  ELSE Fin(n, d, e)

Norm(n, d, e) ==
  IF n = 0 THEN Fin(0, 1, 0)
  ELSE LET g == GCD(Abs(n), d)
       IN  Strip(Sign(n) * (Abs(n) \div g), d \div g, e)

\* a decimal literal n * 10^e
Dec(n, e) == Norm(n, 1, e)

Zero == Dec(0, 0)

One == Dec(1, 0)

Two == Dec(2, 0)

Hundred == Dec(100, 0)

\* ToNumber: undefined becomes NaN and null becomes 0
ToNum(a) == IF a.k = "undefined" THEN NaN ELSE IF a.k = "null" THEN Zero ELSE a

IsFinite(a) == a.k = "fin"

IsNaN(a) == a.k = "nan"

SignOf(a) == IF a.k = "nan" THEN 0 ELSE Sign(a.n)

NegN(a) == IF a.k = "nan" THEN NaN ELSE [a EXCEPT !.n = -a.n]

Neg(x) == NegN(ToNum(x))

AddN(a, b) ==
  IF a.k = "nan" \/ b.k = "nan" THEN NaN
  ELSE IF a.k = "inf" /\ b.k = "inf" THEN (IF a.n = b.n THEN a ELSE NaN)
  ELSE IF a.k = "inf" THEN a
  ELSE IF b.k = "inf" THEN b
  ELSE IF a.n = 0 THEN b
  ELSE IF b.n = 0 THEN a
  ELSE LET e  == IF a.e < b.e THEN a.e ELSE b.e
           na == a.n * Pow10(a.e - e)
           nb == b.n * Pow10(b.e - e)
           g  == GCD(a.d, b.d)
       IN  Norm(na * (b.d \div g) + nb * (a.d \div g), (a.d \div g) * b.d, e)

Add(x, y) == AddN(ToNum(x), ToNum(y))

Sub(x, y) == AddN(ToNum(x), NegN(ToNum(y)))

\* the product of two numbers in canonical form is in canonical form once
\* the common factors are cancelled crosswise
MulN(a, b) ==
  IF a.k = "nan" \/ b.k = "nan" THEN NaN
  ELSE IF a.k = "inf" \/ b.k = "inf"
       THEN (IF a.n = 0 \/ b.n = 0 THEN NaN ELSE Infinity(Sign(a.n) * Sign(b.n)))
  ELSE IF a.n = 0 \/ b.n = 0 THEN Zero
  ELSE LET g1 == GCD(Abs(a.n), b.d)
           g2 == GCD(Abs(b.n), a.d)
       IN  Fin((a.n \div g1) * (b.n \div g2), (a.d \div g2) * (b.d \div g1), a.e + b.e)

\* 1/b for a finite b other than zero
Recip(b) == Fin(Sign(b.n) * b.d, Abs(b.n), -b.e)

Mul(x, y) == MulN(ToNum(x), ToNum(y))

DivN(a, b) ==
  IF a.k = "nan" \/ b.k = "nan" THEN NaN
  ELSE IF a.k = "inf"
       THEN (IF b.k = "inf" THEN NaN
             ELSE Infinity(a.n * (IF b.n < 0 THEN -1 ELSE 1)))
  ELSE IF b.k = "inf" THEN Zero
  ELSE IF b.n = 0 THEN (IF a.n = 0 THEN NaN ELSE Infinity(Sign(a.n)))
  ELSE MulN(a, Recip(b))

Div(x, y) == DivN(ToNum(x), ToNum(y))

\* a < b and a <= b on numbers: every comparison with NaN is false
LtN(a, b) ==
  /\ a.k # "nan" /\ b.k # "nan"
  /\ IF a.k = "inf" THEN a.n < 0 /\ ~(b.k = "inf" /\ b.n < 0)
     ELSE IF b.k = "inf" THEN b.n > 0
     ELSE IF Sign(a.n) # Sign(b.n) THEN Sign(a.n) < Sign(b.n)
     ELSE AddN(a, NegN(b)).n < 0

Lt(x, y) == LtN(ToNum(x), ToNum(y))

\* a === b on two numbers
NumEq(a, b) == a.k # "nan" /\ b.k # "nan" /\ a = b

Le(x, y) == Lt(x, y) \/ NumEq(ToNum(x), ToNum(y))

\* Math.max and Math.min of two numbers
MathMax(x, y) ==
  LET a == ToNum(x)  b == ToNum(y)
  IN  IF a.k = "nan" \/ b.k = "nan" THEN NaN ELSE IF LtN(a, b) THEN b ELSE a

MathMin(x, y) ==
  LET a == ToNum(x)  b == ToNum(y)
  IN  IF a.k = "nan" \/ b.k = "nan" THEN NaN ELSE IF LtN(b, a) THEN b ELSE a

\* Math.min(...list) and Math.max(...list): Infinity and -Infinity on no argument
RECURSIVE MathMinAll(_)
MathMinAll(list) ==
  IF list = <<>> THEN Infinity(1) ELSE MathMin(Head(list), MathMinAll(Tail(list)))

RECURSIVE MathMaxAll(_)
MathMaxAll(list) ==
  IF list = <<>> THEN Infinity(-1) ELSE MathMax(Head(list), MathMaxAll(Tail(list)))

\* the truthiness of a value that is a number, undefined or null
Truthy(a) == a.k = "inf" \/ (a.k = "fin" /\ a.n # 0)

\* a || b
JsOr(a, b) == IF Truthy(a) THEN a ELSE b

\* ------------------------------------------------------------------------
\* Maturity labels and plain objects
\* ------------------------------------------------------------------------

\* A maturity label such as '10Y' or '3M': its digits as a number and its
\* last character.  NoLabel stands for null.
Lbl(n, u) == [n |-> n, u |-> u]

NoLabel == Lbl(0, "null")

endsWith(maturity, suffix) == maturity.u = suffix

maturityToYears(maturity) ==
  IF endsWith(maturity, "W") THEN Div(Dec(maturity.n, 0), Dec(52, 0))
  ELSE IF endsWith(maturity, "M") THEN Div(Dec(maturity.n, 0), Dec(12, 0))
  ELSE IF endsWith(maturity, "Y") THEN Dec(maturity.n, 0)
  ELSE Zero

\* obj[key]: undefined when the object has no such property
Get(obj, key) == IF key \in DOMAIN obj THEN obj[key] ELSE Undefined

\* { ...prev, [key]: value }
Spread(prev, key, value) ==
  [x \in (DOMAIN prev) \cup {key} |-> IF x = key THEN value ELSE prev[x]]

EmptyObject == [x \in {} |-> Zero]

\* ------------------------------------------------------------------------
\* The estimator (App.jsx 534-584)
\* ------------------------------------------------------------------------

\* 0.0001
BasisPoint == Dec(1, -4)

\* calculateModifiedDuration giving the Macaulay duration at every yield
calculateModifiedDurationFlat(macaulayDuration, yieldPercent) ==
  macaulayDuration

\* calculateModifiedDuration with the yield factor multiplied in
calculateModifiedDurationTimes(macaulayDuration, yieldPercent) ==
  Mul(macaulayDuration, Add(One, Div(yieldPercent, Hundred)))

calculateModifiedDuration(macaulayDuration, yieldPercent) ==
  Div(macaulayDuration, Add(One, Div(yieldPercent, Hundred)))

\* calculateDV01 taking the yield in percent for a fraction
calculateDV01RawYield(faceValue, macaulayDuration, yieldPercent) ==
  LET modifiedDuration == Div(macaulayDuration, Add(One, yieldPercent))
  IN  Mul(Mul(modifiedDuration, BasisPoint), faceValue)

calculateDV01(faceValue, macaulayDuration, yieldPercent) ==
  LET modifiedDuration == calculateModifiedDuration(macaulayDuration, yieldPercent)
  IN  Mul(Mul(modifiedDuration, BasisPoint), faceValue)

\* yieldChangeBps without its parentheses: newYield - originalYield * 100
yieldChangeBpsUnparenthesised(originalYield, newYield) ==
  Sub(newYield, Mul(originalYield, Hundred))

\* the locals of calculatePNL
yieldChangeBps(originalYield, newYield) ==
  Mul(Sub(newYield, originalYield), Hundred)

\* the DV01 at the original yield in place of the average
originalDV01Only(originalYield, newYield, macaulayDuration, faceValue) ==
  calculateDV01(faceValue, macaulayDuration, originalYield)

avgDV01(originalYield, newYield, macaulayDuration, faceValue) ==
  LET originalDV01 == calculateDV01(faceValue, macaulayDuration, originalYield)
      newDV01      == calculateDV01(faceValue, macaulayDuration, newYield)
  IN  Div(Add(originalDV01, newDV01), Two)

\* calculatePNL with the DV01 of the duration alone, at no yield
calculatePNLFlatDV01(originalYield, newYield, macaulayDuration, faceValue) ==
  Mul(Neg(Mul(Mul(macaulayDuration, BasisPoint), faceValue)),
      yieldChangeBps(originalYield, newYield))

\* calculatePNL without the minus sign
calculatePNLUnsigned(originalYield, newYield, macaulayDuration, faceValue) ==
  Mul(avgDV01(originalYield, newYield, macaulayDuration, faceValue),
      yieldChangeBps(originalYield, newYield))

calculatePNL(originalYield, newYield, macaulayDuration, faceValue) ==
  Mul(Neg(avgDV01(originalYield, newYield, macaulayDuration, faceValue)),
      yieldChangeBps(originalYield, newYield))

maturityMap ==
  (Lbl(1, "Y") :> Dec(10, -1)) @@ (Lbl(2, "Y") :> Dec(19, -1)) @@
  (Lbl(5, "Y") :> Dec(45, -1)) @@ (Lbl(7, "Y") :> Dec(62, -1)) @@
  (Lbl(10, "Y") :> Dec(80, -1)) @@ (Lbl(30, "Y") :> Dec(180, -1))

\* getMacaulayDuration falling back to a duration of 1
getMacaulayDurationDefaultOne(maturity) == JsOr(Get(maturityMap, maturity), One)

getMacaulayDuration(maturity) == JsOr(Get(maturityMap, maturity), Dec(80, -1))

\* ------------------------------------------------------------------------
\* The data the external feed may deliver
\* ------------------------------------------------------------------------

L3M == Lbl(3, "M")

L6M == Lbl(6, "M")

L2Y == Lbl(2, "Y")

L5Y == Lbl(5, "Y")

L20Y == Lbl(20, "Y")

L10Y == Lbl(10, "Y")

L30Y == Lbl(30, "Y")

\* one { maturity, yield } item of yield_curve
Pt(m, y) == [maturity |-> m, yield |-> y]

\* The body of the /api/rates response.  curveKind says what yield_curve is:
\* "absent" (no such property), "array" (yield_curve holds its items, none
\* for []), or "other" (a truthy value that is no array).
RatesBody(kind, curve, hasYields, ys) ==
  [isNull |-> FALSE, curveKind |-> kind, yield_curve |-> curve,
   hasYields |-> hasYields, yields |-> ys]

NullRates ==
  [isNull |-> TRUE, curveKind |-> "absent", yield_curve |-> <<>>,
   hasYields |-> FALSE, yields |-> EmptyObject]

\* a wide curve with one monthly point, delivered unsorted: its yearly points
\* reach both clamps of a drag
CurveWide ==
  << Pt(L30Y, Dec(1975, -2)), Pt(L3M, Dec(360, -2)), Pt(L2Y, Dec(5, -1)),
     Pt(L10Y, Dec(405, -2)) >>

\* a curve without the default bond '10Y'
CurveNo10Y ==
  << Pt(L6M, Dec(370, -2)), Pt(L5Y, Dec(380, -2)), Pt(L20Y, Dec(430, -2)) >>

\* a short curve: one monthly and two yearly points
CurveShort ==
  << Pt(L3M, Dec(360, -2)), Pt(L2Y, Dec(395, -2)), Pt(L10Y, Dec(405, -2)) >>

YieldsTypical == (L2Y :> Dec(395, -2)) @@ (L10Y :> Dec(405, -2))

\* bodies with no usable curve: [], no yield_curve, a yield_curve that is no array
BodiesNoCurve ==
  { RatesBody("array", <<>>, FALSE, EmptyObject),
    RatesBody("absent", <<>>, FALSE, EmptyObject),
    RatesBody("other", <<>>, FALSE, EmptyObject) }

ResponsesOf(bodies) ==
  { [kind |-> "fail", data |-> NullRates], [kind |-> "empty", data |-> NullRates] }
  \cup { [kind |-> "ok", data |-> b] : b \in bodies }

\* what the rates request of the initial load settles to: "fail" is a
\* rejected request, "empty" a response with a falsy body
RatesResponses ==
  ResponsesOf(BodiesNoCurve \cup {RatesBody("array", CurveShort, TRUE, YieldsTypical)})

\* the rates responses of the chart's specification
ChartResponses ==
  ResponsesOf(BodiesNoCurve \cup
              { RatesBody("array", CurveWide, TRUE,
                          (L2Y :> Dec(5, -1)) @@ (L10Y :> Dec(405, -2))),
                RatesBody("array", CurveNo10Y, TRUE, (L5Y :> Dec(380, -2))) })

OtherResponses == {"fail", "ok"}

\* pointer positions (clientY): a mouse-down in the middle of the plot area
\* and moves to its top and to its bottom, half the scale's range away, and
\* back to where the mouse went down
DownYs == {155}

ClientYs == {20, 155, 290}

\* the numbers parseFloat may give for the text of a trade-yield input
TypedValues == {NaN, Dec(415, -2)}

\* the yields the steepener chart's scale may give for a mouse-down
ChartYValues == {Dec(415, -2)}

\* the rates responses of the steepener's specification: the feed's yields
\* with and without the 2Y and the 10Y
TradeResponses ==
  ResponsesOf({ RatesBody("array", CurveShort, TRUE, YieldsTypical),
                RatesBody("array", CurveShort, TRUE, (L2Y :> Dec(395, -2))),
                RatesBody("array", CurveNo10Y, TRUE, (L5Y :> Dec(380, -2))) })

\* the numbers parseFloat may give in the steepener's specification: no
\* number, 0, the feed's own yields, and yields 10 and 20 bps above them
TradeTypedValues ==
  {NaN, Zero, Dec(395, -2), Dec(405, -2), Dec(415, -2), Dec(425, -2)}

\* what yAxis.scale.invert may give for the y of a mouse-down: a yield, or
\* no number where the coordinate or the scale's domain is no number
TradeChartYValues == {NaN, Dec(415, -2)}

\* the /api/data-updated responses: a failed request, updated false, updated
\* true with no type, updated true with one type
PollResponses == {"fail", "unchanged", "updatedNone", "updatedRates"}

\* the cap on the number of drag moves in one behaviour
MaxMoves == 1

\* the same in the chart's specification
MaxChartMoves == 2

\* ------------------------------------------------------------------------
\* State
\* ------------------------------------------------------------------------

VARIABLES
  loading, macroData, ratesData, fedwatchData,   \* App state, lines 435-438
  interactiveYields,       \* the overlay, line 440: [isNull, map]
  selectedBond,            \* line 441
  dataUpdated, dataUpdateMessage,                \* lines 444-445
  tradeYields,             \* line 446
  isDragging,              \* InteractiveYieldChart state, line 22
  dragStateRef,            \* line 24
  dragActive,              \* the pointer is in a drag: a mouse-down on a point
                           \* of the chart happened, and no mouse-up and no
                           \* leaving of the svg since
  pnl,                     \* the pnl prop of the last render, line 1155
  moves,                   \* the number of onYieldChange calls so far
  lastEvent,               \* "mount", or which of fetchData, onReset, the
                           \* steepener's reset or another handler ran last
  calc                     \* the estimator applied to given inputs

appVars ==
  << loading, macroData, ratesData, fedwatchData, interactiveYields, selectedBond,
     dataUpdated, dataUpdateMessage, tradeYields >>

chartVars == << isDragging, dragStateRef, dragActive >>

vars == << appVars, chartVars, pnl, moves, lastEvent, calc >>

NullYields == [isNull |-> TRUE, map |-> EmptyObject]

Yields(map) == [isNull |-> FALSE, map |-> map]

\* ------------------------------------------------------------------------
\* App: getPNL and the overlay
\* ------------------------------------------------------------------------

faceValue == Dec(10000000, 0)

\* a returned number, or a thrown TypeError
Return(v) == [threw |-> FALSE, value |-> v]

Throw == [threw |-> TRUE, value |-> Undefined]

\* what is shown while InteractiveYieldChart is not rendered
NotRendered == [threw |-> FALSE, value |-> Null]

\* yield_curve.find(item => item.maturity === bond): the index, 0 for none
find(curve, bond) ==
  LET hits == {i \in DOMAIN curve : curve[i].maturity = bond}
  IN  IF hits = {} THEN 0 ELSE CHOOSE i \in hits : \A j \in hits : i <= j

\* getPNL without its check of the overlay's entry
getPNLUnguarded(rd, iy, bond) ==
  IF rd.isNull \/ iy.isNull \/ rd.curveKind = "absent" THEN Return(Zero)
  ELSE IF rd.curveKind # "array" THEN Throw
  ELSE LET i == find(rd.yield_curve, bond)
       IN  IF i = 0 THEN Return(Zero)
           ELSE Return(calculatePNL(rd.yield_curve[i].yield, Get(iy.map, bond),
                                    getMacaulayDuration(bond), faceValue))

\* getPNL with the two yields in each other's place
getPNLSwapped(rd, iy, bond) ==
  IF rd.isNull \/ iy.isNull \/ rd.curveKind = "absent" THEN Return(Zero)
  ELSE IF rd.curveKind # "array" THEN Throw
  ELSE LET i == find(rd.yield_curve, bond)
       IN  IF i = 0 THEN Return(Zero)
           ELSE IF Get(iy.map, bond) = Undefined THEN Return(Zero)
           ELSE Return(calculatePNL(Get(iy.map, bond), rd.yield_curve[i].yield,
                                    getMacaulayDuration(bond), faceValue))

getPNL(rd, iy, bond) ==
  IF rd.isNull \/ iy.isNull \/ rd.curveKind = "absent" THEN Return(Zero)
  ELSE IF rd.curveKind # "array" THEN Throw
  ELSE LET i == find(rd.yield_curve, bond)
       IN  IF i = 0 THEN Return(Zero)
           ELSE LET originalBond == rd.yield_curve[i]
                    newYield     == Get(iy.map, bond)
                IN  IF newYield = Undefined THEN Return(Zero)
                    ELSE Return(calculatePNL(originalBond.yield, newYield,
                                             getMacaulayDuration(bond), faceValue))

\* a filter that keeps every item of a curve
filterKeepsAll(curve) == curve

\* the yearly items of a curve
filterYearly(curve) == SelectSeq(curve, LAMBDA item : endsWith(item.maturity, "Y"))

\* yields = {}; items.forEach(item => yields[item.maturity] = item.yield): the
\* last item of a maturity wins
yieldsOf(items) ==
  [m \in {items[i].maturity : i \in DOMAIN items} |->
     LET last == CHOOSE i \in DOMAIN items :
                   /\ items[i].maturity = m
                   /\ \A j \in DOMAIN items : items[j].maturity = m => j <= i
     IN  items[last].yield]

\* the render of App after loading: the yield table maps over yield_curve
\* (line 1121), which throws when yield_curve is truthy and no array; the
\* page is then gone and takes no further user event
Crashed(ld, rd) == ~ld /\ ~rd.isNull /\ rd.curveKind = "other"

\* InteractiveYieldChart is rendered (lines 1133-1134)
ChartRendered(ld, rd, iy) ==
  ~ld /\ ~rd.isNull /\ rd.curveKind = "array" /\ ~iy.isNull

\* the steepener card's body is rendered (line 1184)
TradeRendered(ld, rd) ==
  ~ld /\ ~rd.isNull /\ rd.curveKind = "array" /\ rd.hasYields

\* the pnl prop: getPNL(selectedBond) where the chart is rendered
pnlProp(ld, rd, iy, bond) ==
  IF ChartRendered(ld, rd, iy) THEN getPNL(rd, iy, bond) ELSE NotRendered

\* a render that keeps the PNL of the last render while the selected bond
\* is the same (a memo keyed on the bond alone)
RenderMemoised ==
  pnl' = IF selectedBond' = selectedBond /\ pnl # NotRendered
         THEN pnl
         ELSE pnlProp(loading', ratesData', interactiveYields', selectedBond')

\* every handler ends with a render of App, which evaluates the pnl prop anew
Render == pnl' = pnlProp(loading', ratesData', interactiveYields', selectedBond')

\* ------------------------------------------------------------------------
\* InteractiveYieldChart (lines 19-176)
\* ------------------------------------------------------------------------

chartHeight == 350

marginTop == 20

marginBottom == 60

plotHeight == chartHeight - marginTop - marginBottom

\* [...curve].sort((a, b) => maturityToYears(a.maturity) - maturityToYears(b.maturity)),
\* a stable sort
RECURSIVE insertByYears(_, _)
insertByYears(sorted, item) ==
  IF sorted = <<>> THEN <<item>>
  ELSE IF Lt(maturityToYears(item.maturity), maturityToYears(Head(sorted).maturity))
       THEN <<item>> \o sorted
       ELSE <<Head(sorted)>> \o insertByYears(Tail(sorted), item)

RECURSIVE sortByYears(_)
sortByYears(curve) ==
  IF curve = <<>> THEN <<>>
  ELSE insertByYears(sortByYears(SubSeq(curve, 1, Len(curve) - 1)), curve[Len(curve)])

sortedYearly(originalCurve) == sortByYears(filterYearly(originalCurve))

\* the scale of getDataPoints and of handleMouseDown (lines 52-54, 84-86)
scaleOf(originalCurve, currentYields) ==
  LET sortedCurve == sortedYearly(originalCurve)
      allYields   == [i \in DOMAIN sortedCurve |->
                        JsOr(Get(currentYields, sortedCurve[i].maturity),
                             sortedCurve[i].yield)]
  IN  [minYield |-> Sub(MathMinAll(allYields), Dec(5, -1)),
       maxYield |-> Add(MathMaxAll(allYields), Dec(5, -1))]

\* the y pixel of a point at currentYield (line 65)
pointY(currentYield, scale) ==
  Sub(Add(Dec(marginTop, 0), Dec(plotHeight, 0)),
      Mul(Div(Sub(currentYield, scale.minYield), Sub(scale.maxYield, scale.minYield)),
          Dec(plotHeight, 0)))

\* the points of the chart (lines 59-75), without their pixel coordinates: x
\* depends on the width of the window only, y is pointY
getDataPoints(originalCurve, currentYields) ==
  LET sortedCurve == sortedYearly(originalCurve)
  IN  [index \in DOMAIN sortedCurve |->
         LET item    == sortedCurve[index]
             current == Get(currentYields, item.maturity)
         IN  [maturity |-> item.maturity,
              originalYield |-> item.yield,
              currentYield |-> IF current # Undefined THEN current ELSE item.yield]]

dataPoints == getDataPoints(ratesData.yield_curve, interactiveYields.map)

\* the Y-axis range (lines 131-133)
axisRange(points) ==
  LET allYields == [i \in DOMAIN points |-> points[i].currentYield]
  IN  [minYield |-> Sub(MathMinAll(allYields), Dec(5, -1)),
       maxYield |-> Add(MathMaxAll(allYields), Dec(5, -1))]

\* the dropdown's options (line 172)
availableBonds == {dataPoints[i].maturity : i \in DOMAIN dataPoints}

InitialDragState ==
  [startY |-> 0, startYield |-> Zero, maturity |-> NoLabel,
   minYield |-> Zero, maxYield |-> Zero, plotHeight |-> 0]

\* ------------------------------------------------------------------------
\* The estimator applied to given inputs
\* ------------------------------------------------------------------------

CalcIdle ==
  [pc |-> "idle", originalYield |-> Zero, newYield |-> Zero,
   macaulayDuration |-> Zero, faceValue |-> Zero,
   modifiedDuration |-> Undefined, yieldChangeBps |-> Undefined,
   avgDV01 |-> Undefined, pnl |-> Undefined]

\* yields in percent: below, at and above -100, zero, the spec's example
\* yields and the drag's upper clamp
CalcYields ==
  { Dec(-150, 0), Dec(-100, 0), Dec(-50, 0), Zero, Dec(395, -2), Dec(405, -2),
    Dec(415, -2), Dec(20, 0) }

CalcDurations == { Dec(-1, 0), Zero, Dec(19, -1), Dec(8, 0), Dec(18, 0) }

CalcFaceValues == { Dec(-10000000, 0), Zero, Dec(1, 0), Dec(10000000, 0) }

CalcInputs ==
  { [CalcIdle EXCEPT !.pc = "input", !.originalYield = y1, !.newYield = y2,
                     !.macaulayDuration = d, !.faceValue = f] :
      y1 \in CalcYields, y2 \in CalcYields, d \in CalcDurations, f \in CalcFaceValues }

\* one evaluation of calculateModifiedDuration (at the original yield) and of
\* calculatePNL
estimate ==
  /\ calc.pc = "input"
  /\ calc' = [calc EXCEPT
       !.pc = "output",
       !.modifiedDuration =
          calculateModifiedDuration(calc.macaulayDuration, calc.originalYield),
       !.yieldChangeBps = yieldChangeBps(calc.originalYield, calc.newYield),
       !.avgDV01 = avgDV01(calc.originalYield, calc.newYield,
                           calc.macaulayDuration, calc.faceValue),
       !.pnl = calculatePNL(calc.originalYield, calc.newYield,
                            calc.macaulayDuration, calc.faceValue)]
  /\ UNCHANGED << appVars, chartVars, pnl, moves, lastEvent >>

\* ------------------------------------------------------------------------
\* The 2s10s steepener card (lines 1184-1209)
\* ------------------------------------------------------------------------

\* the short leg's notional, $10MM (lines 1194-1196)
shortNotional == Dec(1, 7)

\* dv01_2Y (line 1194)
dv01_2Y == Mul(Mul(Dec(19, -1), BasisPoint), shortNotional)

\* dv01_10Y (line 1195)
dv01_10Y == Mul(Mul(Dec(80, -1), BasisPoint), shortNotional)

\* a long leg of the short leg's size, with no DV01 weighting
long2YNotionalUnweighted == shortNotional

\* long2YNotional (line 1196)
long2YNotional == Div(Mul(shortNotional, dv01_10Y), dv01_2Y)

\* a trade yield where one is set, the feed's yield (or 0) otherwise
\* (lines 1186-1187)
tradeYield(rd, ty, maturity) ==
  IF ty[maturity] # Null THEN ty[maturity]
  ELSE JsOr(Get(rd.yields, maturity), Zero)

\* the feed's yield, or 0 (lines 1188-1189)
originalYield(rd, maturity) == JsOr(Get(rd.yields, maturity), Zero)

\* a short leg that gains when the 10Y yield rises
pnl_10Y_leg_ShortGains(yield10YChange) ==
  Mul(yield10YChange, Div(dv01_10Y, Hundred))

\* pnl_10Y_leg (line 1202)
pnl_10Y_leg(yield10YChange) ==
  Mul(Neg(yield10YChange), Div(dv01_10Y, Hundred))

\* pnl_2Y_leg (line 1203)
pnl_2Y_leg(yield2YChange) ==
  Mul(Neg(yield2YChange),
      Div(Div(Mul(dv01_2Y, long2YNotional), shortNotional), Hundred))

\* the values the card's body computes from the feed and the trade yields
\* (lines 1186-1209)
steepener(rd, ty) ==
  LET yield2Y        == tradeYield(rd, ty, L2Y)
      yield10Y       == tradeYield(rd, ty, L10Y)
      original2Y     == originalYield(rd, L2Y)
      original10Y    == originalYield(rd, L10Y)
      yield2YChange  == Mul(Sub(yield2Y, original2Y), Hundred)
      yield10YChange == Mul(Sub(yield10Y, original10Y), Hundred)
      spread         == Sub(yield10Y, yield2Y)
      originalSpread == Sub(original10Y, original2Y)
      leg10Y         == pnl_10Y_leg(yield10YChange)
      leg2Y          == pnl_2Y_leg(yield2YChange)
  IN  [yield2Y |-> yield2Y, yield10Y |-> yield10Y,
       original2Y |-> original2Y, original10Y |-> original10Y,
       dv01_2Y |-> dv01_2Y, dv01_10Y |-> dv01_10Y,
       long2YNotional |-> long2YNotional,
       spread |-> spread, originalSpread |-> originalSpread,
       spreadChange |-> Mul(Sub(spread, originalSpread), Hundred),
       yield2YChange |-> yield2YChange, yield10YChange |-> yield10YChange,
       pnl_10Y_leg |-> leg10Y, pnl_2Y_leg |-> leg2Y,
       totalPnl |-> Add(leg10Y, leg2Y)]

\* ------------------------------------------------------------------------
\* App: the initial load, the poll and the handlers
\* ------------------------------------------------------------------------

NoTradeYields == (L2Y :> Null) @@ (L10Y :> Null)

AppInit ==
  /\ loading = TRUE
  /\ macroData = "null"
  /\ ratesData = NullRates
  /\ fedwatchData = "null"
  /\ interactiveYields = NullYields
  /\ selectedBond = L10Y
  /\ dataUpdated = FALSE
  /\ dataUpdateMessage = ""
  /\ tradeYields = NoTradeYields
  /\ isDragging = NoLabel
  /\ dragStateRef = InitialDragState
  /\ dragActive = FALSE
  /\ pnl = NotRendered
  /\ moves = 0
  /\ lastEvent = "mount"

Init == AppInit /\ calc = CalcIdle

\* the user can act on the page
PageShown == ~loading /\ ~Crashed(loading, ratesData)

\* the steepener card's body is on the page
TradeShown == TradeRendered(loading, ratesData) /\ PageShown

ChartShown == ChartRendered(loading, ratesData, interactiveYields) /\ PageShown

\* fetchData storing nothing when any of the three requests has failed
fetchDataAllOrNothing(macroRes, ratesRes, fedwatchRes) ==
  /\ loading
  /\ LET allOk == macroRes = "ok" /\ ratesRes.kind = "ok" /\ fedwatchRes = "ok"
     IN  /\ macroData' = IF allOk THEN "data" ELSE macroData
         /\ ratesData' = IF allOk THEN ratesRes.data ELSE ratesData
         /\ fedwatchData' = IF allOk THEN "data" ELSE fedwatchData
         /\ interactiveYields' =
              IF /\ allOk
                 /\ ratesRes.data.curveKind = "array"
                 /\ Len(ratesRes.data.yield_curve) > 0
              THEN Yields(yieldsOf(filterYearly(ratesRes.data.yield_curve)))
              ELSE interactiveYields
  /\ loading' = FALSE
  /\ lastEvent' = "fetchData"
  /\ UNCHANGED << selectedBond, dataUpdated, dataUpdateMessage, tradeYields,
                  chartVars, moves, calc >>
  /\ Render

\* fetchData leaving the loading screen up when the rates request has failed
fetchDataStuckOnFailure(macroRes, ratesRes, fedwatchRes) ==
  /\ loading
  /\ macroData' = IF macroRes = "ok" THEN "data" ELSE macroData
  /\ ratesData' = IF ratesRes.kind = "ok" THEN ratesRes.data ELSE ratesData
  /\ fedwatchData' = IF fedwatchRes = "ok" THEN "data" ELSE fedwatchData
  /\ interactiveYields' =
       IF /\ ratesRes.kind = "ok"
          /\ ratesRes.data.curveKind = "array"
          /\ Len(ratesRes.data.yield_curve) > 0
       THEN Yields(yieldsOf(filterYearly(ratesRes.data.yield_curve)))
       ELSE interactiveYields
  /\ loading' = (ratesRes.kind # "ok")
  /\ lastEvent' = "fetchData"
  /\ UNCHANGED << selectedBond, dataUpdated, dataUpdateMessage, tradeYields,
                  chartVars, moves, calc >>
  /\ Render

\* fetchData (lines 640-716), from the settling of the three requests on
fetchData(macroRes, ratesRes, fedwatchRes) ==
  /\ loading
  /\ macroData' = IF macroRes = "ok" THEN "data" ELSE macroData
  /\ ratesData' = IF ratesRes.kind = "ok" THEN ratesRes.data ELSE ratesData
  /\ fedwatchData' = IF fedwatchRes = "ok" THEN "data" ELSE fedwatchData
  /\ interactiveYields' =
       IF /\ ratesRes.kind = "ok"
          /\ ratesRes.data.curveKind = "array"
          /\ Len(ratesRes.data.yield_curve) > 0
       THEN Yields(yieldsOf(filterYearly(ratesRes.data.yield_curve)))
       ELSE interactiveYields
  /\ loading' = FALSE
  /\ lastEvent' = "fetchData"
  /\ UNCHANGED << selectedBond, dataUpdated, dataUpdateMessage, tradeYields,
                  chartVars, moves, calc >>
  /\ Render

\* a poll that, finding the rates updated, also drops the overlay back to
\* the curve
pollIntervalResets(updateRes) ==
  /\ IF updateRes = "updatedRates"
     THEN /\ dataUpdateMessage' =
               "New data available for: rates. Please reload to see updates."
          /\ dataUpdated' = TRUE
          /\ interactiveYields' =
               IF ratesData.isNull THEN interactiveYields
               ELSE Yields(yieldsOf(filterYearly(ratesData.yield_curve)))
     ELSE UNCHANGED << dataUpdated, dataUpdateMessage, interactiveYields >>
  /\ lastEvent' = "other"
  /\ UNCHANGED << loading, macroData, ratesData, fedwatchData,
                  selectedBond, tradeYields, chartVars, moves, calc >>
  /\ Render

\* the poll of /api/data-updated (lines 720-732)
pollInterval(updateRes) ==
  /\ IF updateRes = "updatedRates"
     THEN /\ dataUpdateMessage' =
               "New data available for: rates. Please reload to see updates."
          /\ dataUpdated' = TRUE
     ELSE UNCHANGED << dataUpdated, dataUpdateMessage >>
  /\ lastEvent' = "other"
  /\ UNCHANGED << loading, macroData, ratesData, fedwatchData, interactiveYields,
                  selectedBond, tradeYields, chartVars, moves, calc >>
  /\ Render

\* the banner's dismiss button (line 805)
dismissBanner ==
  /\ PageShown /\ dataUpdated
  /\ dataUpdated' = FALSE
  /\ lastEvent' = "other"
  /\ UNCHANGED << loading, macroData, ratesData, fedwatchData, interactiveYields,
                  selectedBond, dataUpdateMessage, tradeYields, chartVars, moves, calc >>
  /\ Render

\* onBondChange (line 1139)
onBondChange(bond) ==
  /\ ChartShown
  /\ selectedBond' = bond
  /\ lastEvent' = "other"
  /\ UNCHANGED << loading, macroData, ratesData, fedwatchData, interactiveYields,
                  dataUpdated, dataUpdateMessage, tradeYields, chartVars, moves, calc >>
  /\ Render

\* onYieldChange writing the yield into the item of the curve as well
onYieldChangeInPlace(maturity, newYield) ==
  /\ interactiveYields' =
       Yields(Spread(IF interactiveYields.isNull THEN EmptyObject
                     ELSE interactiveYields.map, maturity, newYield))
  /\ ratesData' =
       [ratesData EXCEPT !.yield_curve =
          [i \in DOMAIN ratesData.yield_curve |->
             IF ratesData.yield_curve[i].maturity = maturity
             THEN [ratesData.yield_curve[i] EXCEPT !.yield = newYield]
             ELSE ratesData.yield_curve[i]]]
  /\ UNCHANGED << loading, macroData, fedwatchData, selectedBond,
                  dataUpdated, dataUpdateMessage, tradeYields >>

\* onYieldChange moving every entry of the overlay to the new yield
onYieldChangeParallel(maturity, newYield) ==
  /\ interactiveYields' =
       Yields([m \in DOMAIN Spread(IF interactiveYields.isNull THEN EmptyObject
                                   ELSE interactiveYields.map, maturity, newYield)
                 |-> newYield])
  /\ UNCHANGED << loading, macroData, ratesData, fedwatchData, selectedBond,
                  dataUpdated, dataUpdateMessage, tradeYields >>

\* onYieldChange (lines 1140-1145)
onYieldChange(maturity, newYield) ==
  /\ interactiveYields' =
       Yields(Spread(IF interactiveYields.isNull THEN EmptyObject
                     ELSE interactiveYields.map, maturity, newYield))
  /\ UNCHANGED << loading, macroData, ratesData, fedwatchData, selectedBond,
                  dataUpdated, dataUpdateMessage, tradeYields >>

\* a reset of the selected bond's yield alone
onResetSelected ==
  /\ ChartShown
  /\ LET i == find(ratesData.yield_curve, selectedBond)
     IN  interactiveYields' =
           IF i = 0 THEN interactiveYields
           ELSE Yields(Spread(interactiveYields.map, selectedBond,
                              ratesData.yield_curve[i].yield))
  /\ lastEvent' = "onReset"
  /\ UNCHANGED << loading, macroData, ratesData, fedwatchData, selectedBond,
                  dataUpdated, dataUpdateMessage, tradeYields, chartVars, moves, calc >>
  /\ Render

\* onReset (lines 1146-1154)
onReset ==
  /\ ChartShown
  /\ interactiveYields' = Yields(yieldsOf(filterYearly(ratesData.yield_curve)))
  /\ lastEvent' = "onReset"
  /\ UNCHANGED << loading, macroData, ratesData, fedwatchData, selectedBond,
                  dataUpdated, dataUpdateMessage, tradeYields, chartVars, moves, calc >>
  /\ Render

\* handleMouseDown (lines 80-98) on a point of the chart
handleMouseDown(clientY, point) ==
  /\ ChartShown
  /\ LET scale == scaleOf(ratesData.yield_curve, interactiveYields.map)
     IN  dragStateRef' =
           [startY |-> clientY, startYield |-> point.currentYield,
            maturity |-> point.maturity, minYield |-> scale.minYield,
            maxYield |-> scale.maxYield, plotHeight |-> plotHeight]
  /\ isDragging' = point.maturity
  /\ dragActive' = TRUE
  /\ lastEvent' = "other"
  /\ UNCHANGED << appVars, moves, calc >>
  /\ Render

\* the new yield with no clamp
draggedYieldUnclamped(ref, clientY) ==
  LET pixelsPerYield == Div(Dec(ref.plotHeight, 0), Sub(ref.maxYield, ref.minYield))
      deltaY         == Div(Dec(ref.startY - clientY, 0), pixelsPerYield)
  IN  Add(ref.startYield, deltaY)

\* the new yield of handleMouseMoveGlobal (lines 106-110)
draggedYield(ref, clientY) ==
  LET pixelsPerYield == Div(Dec(ref.plotHeight, 0), Sub(ref.maxYield, ref.minYield))
      deltaY         == Div(Dec(ref.startY - clientY, 0), pixelsPerYield)
  IN  MathMax(Zero, MathMin(Dec(20, 0), Add(ref.startYield, deltaY)))

\* a mouse-move that adds the pointer's distance from the start to the yield
\* the overlay holds now, not to the yield of the mouse-down
handleMouseMoveIncremental(clientY) ==
  /\ ChartShown
  /\ IF isDragging = NoLabel \/ dragStateRef.maturity = NoLabel
     THEN UNCHANGED << appVars, moves >>
     ELSE /\ onYieldChange(
               dragStateRef.maturity,
               draggedYield([dragStateRef EXCEPT !.startYield =
                               interactiveYields.map[dragStateRef.maturity]],
                            clientY))
          /\ moves' = moves + 1
  /\ lastEvent' = "other"
  /\ UNCHANGED << chartVars, calc >>
  /\ Render

\* a mouse-move anywhere in the window: handleMouseMoveGlobal (lines 103-113),
\* which listens while isDragging is set (lines 119-128) and returns early
\* when it is not or the ref holds no maturity (line 104)
handleMouseMoveGlobal(clientY) ==
  /\ ChartShown
  /\ IF isDragging = NoLabel \/ dragStateRef.maturity = NoLabel
     THEN UNCHANGED << appVars, moves >>
     ELSE /\ onYieldChange(dragStateRef.maturity, draggedYield(dragStateRef, clientY))
          /\ moves' = moves + 1
  /\ lastEvent' = "other"
  /\ UNCHANGED << chartVars, calc >>
  /\ Render

\* a mouse-up that ends nothing: the drag state stays as it is
handleMouseUpKeepsDrag ==
  /\ ChartShown
  /\ isDragging # NoLabel
  /\ UNCHANGED << isDragging, dragStateRef >>
  /\ dragActive' = FALSE
  /\ lastEvent' = "other"
  /\ UNCHANGED << appVars, moves, calc >>
  /\ Render

\* handleMouseUpGlobal (lines 115-118), listening while isDragging is set
handleMouseUpGlobal ==
  /\ ChartShown
  /\ isDragging # NoLabel
  /\ isDragging' = NoLabel
  /\ dragStateRef' = [dragStateRef EXCEPT !.maturity = NoLabel]
  /\ dragActive' = FALSE
  /\ lastEvent' = "other"
  /\ UNCHANGED << appVars, moves, calc >>
  /\ Render

\* the svg's onMouseLeave (lines 247-250)
onMouseLeave ==
  /\ ChartShown
  /\ isDragging' = NoLabel
  /\ dragStateRef' = [dragStateRef EXCEPT !.maturity = NoLabel]
  /\ dragActive' = FALSE
  /\ lastEvent' = "other"
  /\ UNCHANGED << appVars, moves, calc >>
  /\ Render

\* the onChange of the 2Y and 10Y yield inputs (lines 1233-1238, 1257-1262)
onTradeInput(maturity, val) ==
  /\ PageShown /\ TradeRendered(loading, ratesData)
  /\ IF ~IsNaN(val)
     THEN tradeYields' = Spread(tradeYields, maturity, val)
     ELSE UNCHANGED tradeYields
  /\ lastEvent' = "other"
  /\ UNCHANGED << loading, macroData, ratesData, fedwatchData, interactiveYields,
                  selectedBond, dataUpdated, dataUpdateMessage, chartVars, moves, calc >>
  /\ Render

\* the steepener chart's onMouseDown (lines 1294-1306), on a label of chartData
onTradeChartMouseDown(maturity, yValue) ==
  /\ PageShown /\ TradeRendered(loading, ratesData)
  /\ tradeYields' = Spread(tradeYields, maturity, yValue)
  /\ lastEvent' = "other"
  /\ UNCHANGED << loading, macroData, ratesData, fedwatchData, interactiveYields,
                  selectedBond, dataUpdated, dataUpdateMessage, chartVars, moves, calc >>
  /\ Render

\* a Reset to Current that takes the chart's overlay back to the curve too
onTradeResetAll ==
  /\ PageShown /\ TradeRendered(loading, ratesData)
  /\ tradeYields' = NoTradeYields
  /\ interactiveYields' = Yields(yieldsOf(filterYearly(ratesData.yield_curve)))
  /\ lastEvent' = "onTradeReset"
  /\ UNCHANGED << loading, macroData, ratesData, fedwatchData,
                  selectedBond, dataUpdated, dataUpdateMessage, chartVars, moves, calc >>
  /\ Render

\* a Reset to Current that clears the 10Y trade yield alone
onTradeResetTenYear ==
  /\ PageShown /\ TradeRendered(loading, ratesData)
  /\ tradeYields' = Spread(tradeYields, L10Y, Null)
  /\ lastEvent' = "onTradeReset"
  /\ UNCHANGED << loading, macroData, ratesData, fedwatchData, interactiveYields,
                  selectedBond, dataUpdated, dataUpdateMessage, chartVars, moves, calc >>
  /\ Render

\* Reset to Current (line 1277)
onTradeReset ==
  /\ PageShown /\ TradeRendered(loading, ratesData)
  /\ tradeYields' = NoTradeYields
  /\ lastEvent' = "onTradeReset"
  /\ UNCHANGED << loading, macroData, ratesData, fedwatchData, interactiveYields,
                  selectedBond, dataUpdated, dataUpdateMessage, chartVars, moves, calc >>
  /\ Render

\* the events of InteractiveYieldChart, at most maxMoves of them changing a yield
ChartNext(maxMoves) ==
  \/ LET points == dataPoints
     IN  \E i \in DOMAIN points : onBondChange(points[i].maturity)
  \/ onReset
  \/ LET points == dataPoints
     IN  \E y \in DownYs, i \in DOMAIN points : handleMouseDown(y, points[i])
  \/ \E y \in ClientYs : moves < maxMoves /\ handleMouseMoveGlobal(y)
  \/ handleMouseUpGlobal
  \/ onMouseLeave

\* the whole page on a short curve, the macro and fedwatch requests succeeding
Next ==
  \/ \E r \in RatesResponses : fetchData("ok", r, "ok")
  \/ \E u \in PollResponses : pollInterval(u)
  \/ dismissBanner
  \/ ChartNext(MaxMoves)
  \/ \E m \in {L2Y, L10Y}, v \in TypedValues : onTradeInput(m, v)
  \/ \E m \in {L2Y, L10Y}, v \in ChartYValues : onTradeChartMouseDown(m, v)
  \/ onTradeReset

Spec == Init /\ [][Next]_vars

\* the chart alone, on every curve
ChartSpecNext ==
  \/ \E r \in ChartResponses : fetchData("ok", r, "ok")
  \/ ChartNext(MaxChartMoves)

ChartSpec == Init /\ [][ChartSpecNext]_vars

\* the load alone, every request failing or succeeding on its own
LoadNext ==
  \/ \E m \in OtherResponses, r \in ChartResponses, f \in OtherResponses :
       fetchData(m, r, f)
  \/ \E u \in PollResponses : pollInterval(u)
  \/ dismissBanner

LoadSpec == Init /\ [][LoadNext]_vars

\* the load with its requests settling: the continuation of fetchData after
\* the await of Promise.all (line 644) runs once the three requests have
\* settled, whatever the poll timer does meanwhile
LoadLiveSpec ==
  /\ Init /\ [][LoadNext]_vars
  /\ WF_vars(\E m \in OtherResponses, r \in ChartResponses, f \in OtherResponses :
               fetchData(m, r, f))

\* the steepener card alone
TradeNext ==
  \/ \E r \in TradeResponses : fetchData("ok", r, "ok")
  \/ \E m \in {L2Y, L10Y}, v \in TradeTypedValues : onTradeInput(m, v)
  \/ \E m \in {L2Y, L10Y}, v \in TradeChartYValues : onTradeChartMouseDown(m, v)
  \/ onTradeReset

TradeSpec == Init /\ [][TradeNext]_vars

CalcInit == AppInit /\ calc \in CalcInputs

CalcNext == estimate

CalcSpec == CalcInit /\ [][CalcNext]_vars

\* ------------------------------------------------------------------------
\* Properties
\* ------------------------------------------------------------------------

\* the labels getPNL is asked about
AnyBond == {L3M, L6M, L2Y, L5Y, L10Y, L30Y}

\* the overlay a fetch or a reset leaves
OriginalYields == yieldsOf(filterYearly(ratesData.yield_curve))

\* C1: once the rates data is stored, no event changes a maturity or a yield
\* of the original curve (nor anything else of the stored data).
C1_CurveNeverMutated == [][~ratesData.isNull => ratesData' = ratesData]_vars

\* C1 happens: the curve is stored, a drag has moved the overlay off it, a
\* steepener yield is edited and the banner is up
C1_Witness ==
  /\ ChartShown /\ moves > 0
  /\ interactiveYields.map # OriginalYields
  /\ tradeYields # NoTradeYields
  /\ dataUpdated

\* data for getPNL(bond) is missing
MissingData(bond) ==
  \/ ratesData.isNull
  \/ interactiveYields.isNull
  \/ ratesData.curveKind = "array" /\ find(ratesData.yield_curve, bond) = 0
  \/ Get(interactiveYields.map, bond) = Undefined

\* C2: wherever the rates data or the overlay is not loaded, the bond is no
\* maturity of the curve or the overlay has no entry for it, getPNL returns 0
\* and does not throw; so does the pnl prop for the selected bond.
C2_MissingDataGivesZero ==
  /\ \A bond \in AnyBond :
       MissingData(bond) =>
         getPNL(ratesData, interactiveYields, bond) = Return(Zero)
  /\ ChartShown /\ MissingData(selectedBond) => pnl = Return(Zero)

\* C2 happens: the chart is shown after a drag, the selected bond is no
\* maturity of the curve, and the curve has a maturity the overlay lacks
C2_Witness ==
  /\ ChartShown /\ moves > 0
  /\ find(ratesData.yield_curve, selectedBond) = 0
  /\ \E bond \in AnyBond :
       /\ find(ratesData.yield_curve, bond) # 0
       /\ Get(interactiveYields.map, bond) = Undefined

\* C3: the PNL shown is the value of getPNL on the current curve, overlay and
\* selected bond, whatever events led there.
C3_PNLOfCurrentState ==
  ChartShown => pnl = getPNL(ratesData, interactiveYields, selectedBond)

\* C3 happens: two drags and a change of bond have been made, and the PNL
\* shown is not 0
C3_Witness ==
  /\ ChartShown /\ moves >= 2
  /\ selectedBond # L10Y
  /\ ~pnl.threw /\ IsFinite(pnl.value) /\ pnl.value # Zero

\* C4: after the initial fetch and after a reset, the overlay maps exactly
\* the maturities of the curve that end in 'Y', each to its original yield,
\* and getPNL is 0 for every bond of the dropdown.
C4_OverlayIsCopyOfOriginal ==
  (ChartShown /\ lastEvent \in {"fetchData", "onReset"}) =>
    /\ DOMAIN interactiveYields.map =
         {ratesData.yield_curve[i].maturity : i \in
            {j \in DOMAIN ratesData.yield_curve :
               endsWith(ratesData.yield_curve[j].maturity, "Y")}}
    /\ \A i \in DOMAIN ratesData.yield_curve :
         endsWith(ratesData.yield_curve[i].maturity, "Y") =>
           Get(interactiveYields.map, ratesData.yield_curve[i].maturity) =
             ratesData.yield_curve[i].yield
    /\ \A bond \in availableBonds :
         getPNL(ratesData, interactiveYields, bond) = Return(Zero)

\* C4 happens: a reset after two drags
C4_Witness ==
  ChartShown /\ lastEvent = "onReset" /\ moves >= 2 /\ Len(ratesData.yield_curve) > 2

\* the estimator has been applied to the inputs of calc
Estimated == calc.pc = "output"

Minus100 == Dec(-100, 0)

C6_Antisymmetric ==
  (Estimated /\ Lt(Minus100, calc.originalYield) /\ Lt(Minus100, calc.newYield)) =>
    NumEq(calc.pnl,
          Neg(calculatePNL(calc.newYield, calc.originalYield,
                           calc.macaulayDuration, calc.faceValue)))

\* C6 happens: two different yields above -100 and a PNL that is not 0
C6_Witness ==
  /\ Estimated
  /\ Lt(Minus100, calc.originalYield) /\ Lt(calc.originalYield, calc.newYield)
  /\ IsFinite(calc.pnl) /\ calc.pnl # Zero

\* C7, as the claim states it: with f > 0 and y2 > y1 the PNL is negative.
C7_AsStated ==
  (Estimated /\ Lt(Zero, calc.faceValue) /\ Lt(calc.originalYield, calc.newYield)) =>
    Lt(calc.pnl, Zero)

\* C7: with f > 0, a duration d > 0 and yields y2 > y1 > -100 the PNL is
\* strictly negative.
C7_RiseLoses ==
  (/\ Estimated /\ Lt(Zero, calc.faceValue) /\ Lt(Zero, calc.macaulayDuration)
   /\ Lt(Minus100, calc.originalYield) /\ Lt(calc.originalYield, calc.newYield)) =>
    Lt(calc.pnl, Zero)

\* C7 happens: a long position, a positive duration, a yield rising from
\* below 0 and above -100
C7_Witness ==
  /\ Estimated /\ Lt(Zero, calc.faceValue) /\ Lt(Zero, calc.macaulayDuration)
  /\ Lt(Minus100, calc.originalYield) /\ Lt(calc.originalYield, Zero)
  /\ Lt(calc.originalYield, calc.newYield)
  /\ IsFinite(calc.pnl)

\* C8, as the claim states it: for any duration d the modified duration is
\* below d at a yield above 0, and is d at yield 0.
C8_AsStated ==
  Estimated =>
    /\ Lt(Zero, calc.originalYield) => Lt(calc.modifiedDuration, calc.macaulayDuration)
    /\ calc.originalYield = Zero => NumEq(calc.modifiedDuration, calc.macaulayDuration)

\* C8: for a duration d > 0 the modified duration is strictly below d at a
\* yield above 0; for any d it is d at yield 0.
C8_ModifiedDurationBelow ==
  Estimated =>
    /\ (Lt(Zero, calc.originalYield) /\ Lt(Zero, calc.macaulayDuration)) =>
         Lt(calc.modifiedDuration, calc.macaulayDuration)
    /\ calc.originalYield = Zero => NumEq(calc.modifiedDuration, calc.macaulayDuration)

\* C8 happens: a positive duration at a positive yield
C8_Witness ==
  /\ Estimated /\ Lt(Zero, calc.originalYield) /\ Lt(Zero, calc.macaulayDuration)
  /\ IsFinite(calc.modifiedDuration) /\ Lt(Zero, calc.modifiedDuration)

\* floor(n * 10^k / d) for n >= 0, d > 0, k >= 0, digit by digit
RECURSIVE ShiftDiv(_, _, _)
ShiftDiv(n, d, k) ==
  IF k = 0 THEN n \div d
  ELSE (n \div d) * Pow10(k) + ShiftDiv((n % d) * 10, d, k - 1)

\* floor(|a| * 10^k) of a finite number a
Scaled(a, k) ==
  IF a.e + k >= 0 THEN ShiftDiv(Abs(a.n), a.d, a.e + k)
  ELSE Abs(a.n) \div (a.d * Pow10(-(a.e + k)))

\* the inputs of the spec's example
IsExample ==
  /\ Estimated
  /\ calc.macaulayDuration = Dec(8, 0) /\ calc.faceValue = Dec(10000000, 0)
  /\ calc.originalYield = Dec(405, -2) /\ calc.newYield = Dec(415, -2)

\* C9, as the spec states it: 10 bps, an average DV01 of 7,685.88 to two
\* decimals, a PNL within 0.01 of -76,858.8.
C9_AsStated ==
  IsExample =>
    /\ calc.yieldChangeBps = Dec(10, 0)
    /\ Scaled(calc.avgDV01, 3) \in 7685875 .. 7685884
    /\ Lt(calc.pnl, Zero)
    /\ Scaled(calc.pnl, 2) \in 7685879 .. 7685880

\* C9: the example gives 10 bps, an average DV01 of 7,684.92 to two decimals
\* and a PNL within 0.01 of -76,849.20.
C9_Example ==
  IsExample =>
    /\ calc.yieldChangeBps = Dec(10, 0)
    /\ Scaled(calc.avgDV01, 3) \in 7684915 .. 7684924
    /\ Lt(calc.pnl, Zero)
    /\ Scaled(calc.pnl, 2) \in 7684919 .. 7684920

\* C9 happens: the estimator has been applied to the example
C9_Witness == IsExample /\ IsFinite(calc.pnl)

\* the five steps, written out
FiveSteps(y1, y2, d, f) ==
  LET bps   == Mul(Sub(y2, y1), Dec(100, 0))
      dv1   == Mul(Mul(Div(d, Add(Dec(1, 0), Div(y1, Dec(100, 0)))), Dec(1, -4)), f)
      dv2   == Mul(Mul(Div(d, Add(Dec(1, 0), Div(y2, Dec(100, 0)))), Dec(1, -4)), f)
      mean  == Div(Add(dv1, dv2), Dec(2, 0))
  IN  Neg(Mul(mean, bps))

\* C10: the PNL shown for a bond of the curve with an overlay entry is minus
\* the mean of the DV01s at the curve's yield and at the overlay's yield times
\* the yield change in bps, each DV01 being d / (1 + yield/100) * 0.0001 * f,
\* with f = 10,000,000 and d the bond's duration.
C10_FiveSteps ==
  (/\ ChartShown
   /\ find(ratesData.yield_curve, selectedBond) # 0
   /\ Get(interactiveYields.map, selectedBond) # Undefined) =>
    pnl = Return(FiveSteps(
            ratesData.yield_curve[find(ratesData.yield_curve, selectedBond)].yield,
            Get(interactiveYields.map, selectedBond),
            getMacaulayDuration(selectedBond),
            Dec(10000000, 0)))

\* C10 happens: the selected bond has been dragged and its PNL is shown
C10_Witness ==
  /\ ChartShown /\ moves > 0
  /\ find(ratesData.yield_curve, selectedBond) # 0
  /\ Get(interactiveYields.map, selectedBond) # Undefined
  /\ Get(interactiveYields.map, selectedBond) #
       ratesData.yield_curve[find(ratesData.yield_curve, selectedBond)].yield
  /\ ~pnl.threw /\ Lt(pnl.value, Zero)


\* the steepener card's values in the current state
Card == steepener(ratesData, tradeYields)

\* both trade yields are numbers
TradeYieldsFinite == IsFinite(Card.yield2Y) /\ IsFinite(Card.yield10Y)

\* C11 as stated: on a parallel shift (the 2Y and the 10Y trade yields moved
\* by the same number of basis points from their originals) the steepener's
\* total PNL is about 0: within one dollar of it.
C11_AsStated ==
  (/\ TradeShown /\ TradeYieldsFinite
   /\ NumEq(Card.yield2YChange, Card.yield10YChange))
  => Lt(Neg(One), Card.totalPnl) /\ Lt(Card.totalPnl, One)

C13_DV01Weighted ==
  TradeShown =>
    /\ Card.long2YNotional = Div(Mul(Dec(1, 7), Dec(80, -1)), Dec(19, -1))
    /\ Scaled(Card.long2YNotional, 0) = 42105263
    /\ NumEq(Div(Mul(Card.dv01_2Y, Card.long2YNotional), Dec(1, 7)),
             Card.dv01_10Y)
    /\ NumEq(Card.dv01_10Y, Dec(8, 3))

\* C13 happens: the card is shown with both trade yields moved off the feed's
C13_Witness ==
  /\ TradeShown /\ TradeYieldsFinite
  /\ ~NumEq(Card.yield2Y, Card.original2Y)
  /\ ~NumEq(Card.yield10Y, Card.original10Y)
  /\ ~NumEq(Card.original2Y, Zero)

\* the two legs by calculatePNL: each with its own duration, notional (long
\* or short by its sign) and yield move
LegsByCalculatePNL(sign10Y, sign2Y) ==
  Add(calculatePNL(Card.original10Y, Card.yield10Y, Dec(80, -1),
                   Mul(Dec(sign10Y, 0), shortNotional)),
      calculatePNL(Card.original2Y, Card.yield2Y, Dec(19, -1),
                   Mul(Dec(sign2Y, 0), Card.long2YNotional)))

\* C14 as stated: the steepener's total PNL is the sum of calculatePNL (the
\* average of the start and end yield-adjusted DV01 times the move) applied
\* to each leg with its own duration, notional and yield move, whichever
\* sign the notional of a short leg is given.
C14_AsStated ==
  (TradeShown /\ TradeYieldsFinite)
  => \E sign10Y \in {-1, 1}, sign2Y \in {-1, 1} :
       NumEq(Card.totalPnl, LegsByCalculatePNL(sign10Y, sign2Y))

\* C15 as stated: NaN is rejected on every path that writes a trade yield
\* (the two inputs and the mouse-down on the 2Y/10Y chart), so tradeYields
\* holds NaN in no reachable state.
C15_AsStated == ~IsNaN(tradeYields[L2Y]) /\ ~IsNaN(tradeYields[L10Y])

\* C16: a mouse-move changes the overlay only while a drag started by a
\* mouse-down on a point is active: after a mouse-up, or the pointer leaving
\* the svg, no mouse-move changes the overlay until the next mouse-down on a
\* point.
C16_MoveOnlyWhileDragging ==
  [][/\ moves' # moves => dragActive
     /\ (~dragActive /\ lastEvent' \notin {"fetchData", "onReset"})
        => interactiveYields' = interactiveYields]_vars

\* C16 happens: a drag has moved the overlay off the original curve and has
\* ended, and mouse-moves may still arrive
C16_Witness ==
  /\ ChartShown /\ ~dragActive /\ isDragging = NoLabel
  /\ moves = 1 /\ moves < MaxChartMoves
  /\ lastEvent = "other"
  /\ interactiveYields.map # OriginalYields

\* C17: a poll, whatever its response, leaves the rates data, the overlay,
\* the selected bond, the trade yields and the PNL as they are (it changes
\* only dataUpdated and dataUpdateMessage), in any interleaving with drags
\* and resets.
C17_PollFrame ==
  [][(\E u \in PollResponses : pollInterval(u))
     => UNCHANGED << loading, macroData, ratesData, fedwatchData,
                     interactiveYields, selectedBond, tradeYields, pnl,
                     isDragging, dragStateRef >>]_vars

\* C17 happens: a poll has raised the banner in the middle of a drag that
\* has moved the overlay off the original curve
C17_Witness ==
  /\ ChartShown /\ dataUpdated
  /\ dragActive /\ moves = 1
  /\ interactiveYields.map # OriginalYields
  /\ pnl # Return(Zero)

\* a value the estimator hands back as a number: finite, infinite or NaN
IsNumber(a) == a.k \in {"fin", "inf", "nan"}

\* C18 as stated: a yield at or below -100% is an input error: the estimator
\* reports a validation failure for it and returns no number, neither an
\* infinite nor a sign-flipped one.
C18_AsStated ==
  (/\ Estimated
   /\ Le(calc.originalYield, Minus100) \/ Le(calc.newYield, Minus100))
  => ~IsNumber(calc.modifiedDuration) /\ ~IsNumber(calc.pnl)

\* C19: for a duration d > 0, a face value f > 0 and yields -100 < y1 < y2,
\* calculateModifiedDuration(d, y2) < calculateModifiedDuration(d, y1) and
\* calculateDV01(f, d, y2) < calculateDV01(f, d, y1).
C19_Decreasing ==
  (/\ Estimated /\ Lt(Zero, calc.macaulayDuration) /\ Lt(Zero, calc.faceValue)
   /\ Lt(Minus100, calc.originalYield) /\ Lt(calc.originalYield, calc.newYield))
  => /\ Lt(calculateModifiedDuration(calc.macaulayDuration, calc.newYield),
           calc.modifiedDuration)
     /\ calc.modifiedDuration =
          calculateModifiedDuration(calc.macaulayDuration, calc.originalYield)
     /\ Lt(calculateDV01(calc.faceValue, calc.macaulayDuration, calc.newYield),
           calculateDV01(calc.faceValue, calc.macaulayDuration,
                         calc.originalYield))

\* C19 happens: the 10Y's duration, $10MM, and a yield rising from 4.05 to
\* 4.15, the modified duration falling from 8 / 1.0405
C19_Witness ==
  /\ Estimated
  /\ calc.macaulayDuration = Dec(8, 0) /\ calc.faceValue = Dec(1, 7)
  /\ calc.originalYield = Dec(405, -2) /\ calc.newYield = Dec(415, -2)
  /\ calc.modifiedDuration = Div(Dec(8, 0), Dec(10405, -4))

\* the durations C20 lists, by label
ListedDuration(maturity) ==
  CASE maturity = Lbl(1, "Y")  -> Dec(10, -1)
    [] maturity = Lbl(2, "Y")  -> Dec(19, -1)
    [] maturity = Lbl(5, "Y")  -> Dec(45, -1)
    [] maturity = Lbl(7, "Y")  -> Dec(62, -1)
    [] maturity = Lbl(10, "Y") -> Dec(80, -1)
    [] maturity = Lbl(30, "Y") -> Dec(180, -1)
    [] OTHER                   -> Dec(80, -1)

\* the labels getMacaulayDuration is asked about: the listed ones and others
DurationLabels ==
  { Lbl(n, "Y") : n \in {1, 2, 3, 5, 7, 10, 20, 30} } \cup {L3M, L6M}

\* C20: getMacaulayDuration returns 1.0, 1.9, 4.5, 6.2, 8.0, 18.0 for '1Y',
\* '2Y', '5Y', '7Y', '10Y', '30Y' and 8.0 for any other label (a 3Y or a 20Y
\* point of the curve), in every state: no event changes the table, and the
\* PNL shown for the selected bond is computed with the listed duration.
C20_DurationTable ==
  /\ \A m \in DurationLabels : getMacaulayDuration(m) = ListedDuration(m)
  /\ (/\ ChartShown
      /\ find(ratesData.yield_curve, selectedBond) # 0
      /\ Get(interactiveYields.map, selectedBond) # Undefined) =>
       pnl = Return(calculatePNL(
               ratesData.yield_curve[find(ratesData.yield_curve, selectedBond)].yield,
               Get(interactiveYields.map, selectedBond),
               ListedDuration(selectedBond),
               Dec(10000000, 0)))

\* C20 happens: the 20Y point of a curve is selected and has been dragged,
\* and its PNL is shown
C20_Witness ==
  /\ ChartShown /\ selectedBond = L20Y /\ moves > 0
  /\ find(ratesData.yield_curve, L20Y) # 0
  /\ Get(interactiveYields.map, L20Y) # Dec(430, -2)
  /\ ~pnl.threw /\ IsFinite(pnl.value) /\ ~NumEq(pnl.value, Zero)

\* the yield a point is at, in percent, lies in [0, 20]
InClamp(y) == Le(Zero, y) /\ Le(y, Dec(20, 0))

\* C21: the value a mouse-move of a drag writes is max(0, min(20, startYield
\* + deltaY)); after any drags every overlay entry that differs from its
\* original yield lies in [0, 20] and its denominator 1 + yield/100 is at
\* least 1.
C21_DragClamped ==
  [][moves' # moves =>
       LET ref     == dragStateRef
           deltaY  == Div(Mul(Dec(ref.startY, 0), Sub(ref.maxYield, ref.minYield)),
                          Dec(ref.plotHeight, 0))
           written == interactiveYields'.map[ref.maturity]
       IN  /\ InClamp(written)
           /\ \E clientY \in ClientYs :
                LET moved == Sub(Add(ref.startYield, deltaY),
                                 Div(Mul(Dec(clientY, 0),
                                         Sub(ref.maxYield, ref.minYield)),
                                     Dec(ref.plotHeight, 0)))
                IN  NumEq(written,
                          IF Lt(moved, Zero) THEN Zero
                          ELSE IF Lt(Dec(20, 0), moved) THEN Dec(20, 0) ELSE moved)
           /\ \A m \in DOMAIN interactiveYields'.map :
                interactiveYields'.map[m] # Get(yieldsOf(filterYearly(ratesData.yield_curve)), m)
                => /\ InClamp(interactiveYields'.map[m])
                   /\ Le(One, Add(One, Div(interactiveYields'.map[m], Hundred)))]_vars

\* C21 happens: drags have left one entry of the overlay at the upper clamp
\* and one at the lower clamp
C21_Witness ==
  /\ ChartShown /\ moves = 2
  /\ \E m \in DOMAIN interactiveYields.map :
       interactiveYields.map[m] = Dec(20, 0) /\ OriginalYields[m] # Dec(20, 0)
  /\ \E m \in DOMAIN interactiveYields.map :
       interactiveYields.map[m] = Zero /\ OriginalYields[m] # Zero

\* C22: a mouse-move of a drag changes only the overlay entry of the maturity
\* of the mouse-down: the other entries, the selected bond and the trade
\* yields stay as they are; and selecting a bond leaves the overlay as it is.
C22_DragFrame ==
  [][/\ moves' # moves =>
          /\ isDragging # NoLabel /\ dragStateRef.maturity = isDragging
          /\ DOMAIN interactiveYields'.map =
               DOMAIN interactiveYields.map \cup {isDragging}
          /\ \A m \in DOMAIN interactiveYields.map :
               m # isDragging => interactiveYields'.map[m] = interactiveYields.map[m]
          /\ UNCHANGED << selectedBond, tradeYields, ratesData >>
     /\ (\E b \in availableBonds : onBondChange(b))
          => interactiveYields' = interactiveYields]_vars

\* C22 happens: with a trade yield set and the other bond selected, a drag
\* has moved the 2Y alone
C22_Witness ==
  /\ ChartShown /\ moves = 1
  /\ tradeYields[L10Y] # Null
  /\ selectedBond = L10Y
  /\ interactiveYields.map[L2Y] # OriginalYields[L2Y]
  /\ interactiveYields.map[L10Y] = OriginalYields[L10Y]

\* the maturities of the original curve that end in 'Y'
YearlyMaturities ==
  { ratesData.yield_curve[i].maturity :
      i \in { j \in DOMAIN ratesData.yield_curve :
                endsWith(ratesData.yield_curve[j].maturity, "Y") } }

\* C23: wherever the overlay is set its keys are exactly the maturities of
\* the original curve that end in 'Y' (initialization, drags and resets add
\* and remove none), and after the initial fetch the overlay is set if and
\* only if the rates response carried a non-empty yield_curve array.
C23_OverlayKeys ==
  /\ ~interactiveYields.isNull =>
       /\ ~ratesData.isNull /\ ratesData.curveKind = "array"
       /\ DOMAIN interactiveYields.map = YearlyMaturities
  /\ ~loading =>
       (~interactiveYields.isNull <=>
          /\ ~ratesData.isNull /\ ratesData.curveKind = "array"
          /\ Len(ratesData.yield_curve) > 0)
  /\ loading => interactiveYields.isNull

\* C23 happens: a curve with a monthly point and three yearly points is shown
\* and drags have moved the overlay off it
C23_Witness ==
  /\ ChartShown /\ moves = 2 /\ lastEvent = "other"
  /\ \E i \in DOMAIN ratesData.yield_curve :
       ~endsWith(ratesData.yield_curve[i].maturity, "Y")
  /\ Cardinality(DOMAIN interactiveYields.map) = 3
  /\ interactiveYields.map # OriginalYields

\* C24: within a drag the overlay value depends only on the snapshot of the
\* mouse-down (start pointer Y, start yield, scale) and the pointer's Y now,
\* not on the earlier moves: a move leaves the snapshot as it is and writes
\* a value the snapshot and some pointer Y give, and a move back to the
\* start Y writes the start yield back when that lies in [0, 20].
C24_DragFromSnapshot ==
  [][/\ moves' # moves =>
          /\ dragStateRef' = dragStateRef
          /\ \E clientY \in ClientYs :
               interactiveYields'.map[dragStateRef.maturity] =
                 draggedYield(dragStateRef, clientY)
     /\ (/\ moves' # moves
         /\ handleMouseMoveGlobal(dragStateRef.startY)
         /\ InClamp(dragStateRef.startYield))
          => interactiveYields'.map[dragStateRef.maturity] =
               dragStateRef.startYield]_vars

\* C24 happens: in one drag the pointer has moved a point away and back to
\* the start Y, and the point is at the yield of the mouse-down again
C24_Witness ==
  /\ ChartShown /\ dragActive /\ moves = 2 /\ lastEvent = "other"
  /\ dragStateRef.maturity # NoLabel
  /\ interactiveYields.map = OriginalYields
  /\ dragStateRef.startYield = OriginalYields[dragStateRef.maturity]
  /\ dragStateRef.startY \in ClientYs

\* the yield as far below the original yield as the new yield is above it
MirroredYield == Sub(Mul(Two, calc.originalYield), calc.newYield)

\* C25: the PNL is convex in the yield move: for a positive duration, a
\* positive face value, an original yield y and a move x > 0 with
\* y - x > -100, the gain calculatePNL(y, y - x, d, f) is strictly larger
\* than the loss -calculatePNL(y, y + x, d, f): the loss is positive and the
\* gain divided by it is above 1.
C25_Convex ==
  (/\ Estimated /\ Lt(Zero, calc.macaulayDuration) /\ Lt(Zero, calc.faceValue)
   /\ Lt(calc.originalYield, calc.newYield)
   /\ Lt(Minus100, MirroredYield))
  => /\ calc.pnl = calculatePNL(calc.originalYield, calc.newYield,
                                calc.macaulayDuration, calc.faceValue)
     /\ Lt(Zero, Neg(calc.pnl))
     /\ Lt(One, Div(calculatePNL(calc.originalYield, MirroredYield,
                                 calc.macaulayDuration, calc.faceValue),
                    Neg(calc.pnl)))

\* C25 happens: the 10Y's duration, $10MM, and a rise from 4.05 to 4.15,
\* whose loss is below the gain of the fall from 4.05 to 3.95
C25_Witness ==
  /\ Estimated
  /\ calc.macaulayDuration = Dec(8, 0) /\ calc.faceValue = Dec(1, 7)
  /\ calc.originalYield = Dec(405, -2) /\ calc.newYield = Dec(415, -2)
  /\ MirroredYield = Dec(395, -2)
  /\ Lt(calc.pnl, Zero)

\* C26 as stated: the scale that positions the points and converts a drag
\* into a yield is the scale of the displayed yields: in every overlay state
\* (an entry dragged down to 0 included) each point's current yield lies
\* between the minYield and maxYield of getDataPoints and handleMouseDown,
\* and these equal the minimum current yield minus 0.5 and the maximum
\* current yield plus 0.5 of the Y-axis labels.
C26_AsStated ==
  (ChartShown /\ Len(dataPoints) > 0) =>
    LET scale == scaleOf(ratesData.yield_curve, interactiveYields.map)
        axis  == axisRange(dataPoints)
    IN  /\ \A i \in DOMAIN dataPoints :
             /\ Le(scale.minYield, dataPoints[i].currentYield)
             /\ Le(dataPoints[i].currentYield, scale.maxYield)
        /\ NumEq(scale.minYield, axis.minYield)
        /\ NumEq(scale.maxYield, axis.maxYield)

\* C27: the initial load always finishes: whichever of the three requests
\* fail or succeed and whatever the responses hold, loading becomes false
\* once the requests have settled, and never becomes true again.
C27_LoadFinishes ==
  /\ <>(~loading)
  /\ [][~loading => ~loading']_vars

\* C27 happens: all three requests have failed, the load is over, and a poll
\* has run on the page since
C27_Witness ==
  /\ ~loading /\ ratesData.isNull /\ macroData = "null" /\ fedwatchData = "null"
  /\ dataUpdated

\* C28: the failures of the three initial requests are independent: a failed
\* rates request leaves the rates data and the overlay unset (getPNL is 0)
\* while macro and fedwatch data are stored from their own successful
\* responses, and a failed macro or fedwatch request leaves only its own data
\* unset.
C28_IndependentFailures ==
  [][\A m \in OtherResponses, r \in ChartResponses, f \in OtherResponses :
       fetchData(m, r, f) =>
         /\ macroData' = (IF m = "ok" THEN "data" ELSE "null")
         /\ fedwatchData' = (IF f = "ok" THEN "data" ELSE "null")
         /\ r.kind = "ok" => ratesData' = r.data
         /\ r.kind = "fail" =>
              /\ ratesData'.isNull /\ interactiveYields'.isNull
              /\ \A b \in AnyBond :
                   getPNL(ratesData', interactiveYields', b) = Return(Zero)]_vars

\* C28 happens: the rates request has failed, the other two have succeeded
\* and the page is shown
C28_Witness ==
  /\ PageShown /\ lastEvent = "fetchData"
  /\ ratesData.isNull /\ interactiveYields.isNull
  /\ macroData = "data" /\ fedwatchData = "data"

\* C29: the trade yields and the overlay are separate states: a step that
\* edits or resets the trade yields changes neither the overlay nor the
\* calculator's PNL, and a drag or a Reset to Original changes neither the
\* trade yields nor the steepener's total PNL.
C29_TradeAndOverlaySeparate ==
  [][/\ tradeYields' # tradeYields
          => UNCHANGED << interactiveYields, selectedBond, pnl >>
     /\ (\/ moves' # moves
         \/ lastEvent' = "onReset"
         \/ (interactiveYields' # interactiveYields /\ lastEvent' # "fetchData"))
          => /\ UNCHANGED tradeYields
             /\ steepener(ratesData', tradeYields').totalPnl = Card.totalPnl]_vars

\* C29 happens: a trade yield is set and the steepener shows a PNL, while a
\* drag has moved the overlay and the calculator shows a PNL of its own
C29_Witness ==
  /\ ChartShown /\ TradeShown /\ moves = 1
  /\ tradeYields[L10Y] # Null
  /\ ~NumEq(Card.totalPnl, Zero)
  /\ interactiveYields.map # OriginalYields
  /\ pnl # Return(Zero)

\* C30: Reset to Current restores the neutral state after any trade-yield
\* edits: both trade yields fall back to the original 2Y and 10Y yields of
\* the rates data, so the 2Y change, the 10Y change, the spread change and
\* the total PNL are all 0.
C30_ResetToCurrent ==
  (TradeShown /\ lastEvent = "onTradeReset") =>
    /\ tradeYields = NoTradeYields
    /\ Card.yield2Y = originalYield(ratesData, L2Y)
    /\ Card.yield10Y = originalYield(ratesData, L10Y)
    /\ NumEq(Card.yield2YChange, Zero) /\ NumEq(Card.yield10YChange, Zero)
    /\ NumEq(Card.spreadChange, Zero)
    /\ NumEq(Card.totalPnl, Zero)

\* C30 happens: Reset to Current has been pressed on a card whose feed has
\* both yields
C30_Witness ==
  /\ TradeShown /\ lastEvent = "onTradeReset"
  /\ Card.yield2Y = Dec(395, -2) /\ Card.yield10Y = Dec(405, -2)
  /\ NumEq(Card.spread, Dec(10, -2))

====
